---- MODULE Spec2Model ----
(***************************************************************************)
(* Model of src/rag_pipeline.py: the document builder (prepare_documents), *)
(* the collection manager (setup_chroma_store), system initialisation      *)
(* (initialize_rag_system, create_gradio_interface) and query dispatch     *)
(* (handle_query, query_disease).                                          *)
(*                                                                         *)
(* Python dicts with optional keys are TLA+ functions whose DOMAIN is the  *)
(* set of keys present; the empty dict is <<>>.  Rendered text is the      *)
(* sequence of the f-string's pieces in order.                             *)
(***************************************************************************)
EXTENDS Integers, Sequences, FiniteSets, TLC

VARIABLES
    merged_data,  \* the dataset: the ordered <<disease_name, data>> items
    docResult,    \* what prepare_documents returned (document builder runs)
    disk,         \* the persistence directory ./chroma_db
    storeResult,  \* what the last setup_chroma_store call did
    storeOps,     \* number of operations applied to the store
    data_file,    \* RareDisease_data.json: "readable", "missing", "malformed"
    pc,           \* "start", "serving" (interface built), "crashed", "off"
    index,        \* the index the handle_query closure captured
    initResult,   \* what initialize_rag_system did
    lastQuery,    \* the last handle_query invocation and its result
    nQueries,     \* number of handle_query invocations
    nCalls,       \* number of query_engine.query calls made
    prevKind      \* kind of the response before the last one

vars == <<merged_data, docResult, disk, storeResult, storeOps, data_file,
          pc, index, initResult, lastQuery, nQueries, nCalls, prevKind>>

docVars == <<merged_data, docResult>>
storeVars == <<disk, storeResult, storeOps>>
sysVars == <<data_file, pc, index, initResult, lastQuery, nQueries, nCalls, prevKind>>

(***************************************************************************)
(* Bounds                                                                  *)
(***************************************************************************)
\* total number of papers in a generated dataset
MaxPapers == 2
\* number of queries submitted in one run of the process
MaxQueries == 3
\* number of harness operations on the persistent store
MaxStoreOps == 4
\* number of items a populate step inserts at most
MaxInsert == 2

(***************************************************************************)
(* Python values                                                           *)
(***************************************************************************)
None == "None"
EmptyDict == <<>>

\* dict.get(key, default)
Get(d, k, default) == IF k \in DOMAIN d THEN d[k] ELSE default

\* truthiness of a dict: non-empty
TruthyDict(d) == DOMAIN d # {}

(***************************************************************************)
(* json.dumps(value, indent=2), with the default ensure_ascii.  A JSON     *)
(* value is a record with one field naming its type: [str |-> s],          *)
(* [num |-> n] (an integer), [bool |-> b], [null |-> TRUE],                *)
(* [list |-> items] or [map |-> pairs], pairs being the ordered            *)
(* <<key, value>> items.  A string (and a key) is the sequence of its      *)
(* Unicode code points, and so is the output.  Floating-point numbers have *)
(* no value here.                                                          *)
(***************************************************************************)
EmptyMapping == [map |-> <<>>]

\* a line break and two spaces per nesting level
NewLine(depth) == <<10>> \o [i \in 1..(2 * depth) |-> 32]

\* the lower-case hexadecimal digit of d
HexDigit(d) == IF d < 10 THEN 48 + d ELSE 87 + d

\* \uXXXX for a code unit
UnicodeEscape(u) ==
    <<92, 117, HexDigit((u \div 4096) % 16), HexDigit((u \div 256) % 16),
      HexDigit((u \div 16) % 16), HexDigit(u % 16)>>

\* ensure_ascii escaping of one code point: the quote, the backslash and
\* everything outside U+0020 .. U+007E are escaped, a code point above
\* U+FFFF as its surrogate pair
EscapeCodePoint(c) ==
    CASE c = 34 -> <<92, 34>>
      [] c = 92 -> <<92, 92>>
      [] c = 10 -> <<92, 110>>
      [] c = 13 -> <<92, 114>>
      [] c = 9 -> <<92, 116>>
      [] c = 12 -> <<92, 102>>
      [] c = 8 -> <<92, 98>>
      [] OTHER ->
           IF c >= 32 /\ c <= 126 THEN <<c>>
           ELSE IF c < 65536 THEN UnicodeEscape(c)
           ELSE UnicodeEscape(55296 + ((c - 65536) \div 1024))
                \o UnicodeEscape(56320 + ((c - 65536) % 1024))

RECURSIVE EscapeString(_)
EscapeString(s) ==
    IF Len(s) = 0 THEN <<>>
    ELSE EscapeCodePoint(Head(s)) \o EscapeString(Tail(s))

JsonString(s) == <<34>> \o EscapeString(s) \o <<34>>

RECURSIVE DecimalDigits(_)
DecimalDigits(n) ==
    IF n < 10 THEN <<48 + n>>
    ELSE DecimalDigits(n \div 10) \o <<48 + (n % 10)>>

JsonInt(n) == IF n < 0 THEN <<45>> \o DecimalDigits(0 - n) ELSE DecimalDigits(n)

RECURSIVE JsonValue(_, _)
RECURSIVE JsonItems(_, _)
RECURSIVE JsonPairs(_, _)

JsonValue(x, depth) ==
    IF "str" \in DOMAIN x THEN JsonString(x.str)
    ELSE IF "num" \in DOMAIN x THEN JsonInt(x.num)
    ELSE IF "bool" \in DOMAIN x
    THEN IF x.bool THEN <<116, 114, 117, 101>> ELSE <<102, 97, 108, 115, 101>>
    ELSE IF "null" \in DOMAIN x THEN <<110, 117, 108, 108>>
    ELSE IF "list" \in DOMAIN x
    THEN IF Len(x.list) = 0 THEN <<91, 93>>
         ELSE <<91>> \o JsonItems(x.list, depth + 1) \o NewLine(depth) \o <<93>>
    ELSE IF Len(x.map) = 0 THEN <<123, 125>>
         ELSE <<123>> \o JsonPairs(x.map, depth + 1) \o NewLine(depth) \o <<125>>

JsonItems(items, depth) ==
    IF Len(items) = 0 THEN <<>>
    ELSE NewLine(depth) \o JsonValue(Head(items), depth)
         \o (IF Len(items) > 1 THEN <<44>> ELSE <<>>)
         \o JsonItems(Tail(items), depth)

JsonPairs(pairs, depth) ==
    IF Len(pairs) = 0 THEN <<>>
    ELSE NewLine(depth) \o JsonString(Head(pairs)[1]) \o <<58, 32>>
         \o JsonValue(Head(pairs)[2], depth)
         \o (IF Len(pairs) > 1 THEN <<44>> ELSE <<>>)
         \o JsonPairs(Tail(pairs), depth)

JsonDumps(x) == JsonValue(x, 0)

\* the pieces of a rendered text: a literal piece of the template or an
\* interpolated string, and the output of json.dumps
Lit(s) == [lit |-> s]
Json(codes) == [json |-> codes]

\* ', '.join(strings)
RECURSIVE Join(_)
Join(strs) ==
    IF strs = <<>> THEN <<>>
    ELSE IF Len(strs) = 1 THEN <<strs[1]>>
    ELSE <<strs[1], ", ">> \o Join(Tail(strs))

(***************************************************************************)
(* prepare_documents                                                       *)
(***************************************************************************)
\* the f-string of lines 25-40
DiseaseText(disease_name, disease_info) ==
    <<Lit("Disease Name: "), Lit(disease_name),
      Lit("Clinical Definition: "), Lit(Get(disease_info, "definition", "")),
      Lit("Clinical Features:"),
      Json(JsonDumps(Get(disease_info, "clinical_features", EmptyMapping))),
      Lit("Genetic Information:"),
      Json(JsonDumps(Get(disease_info, "genetic_info", EmptyMapping))),
      Lit("Natural History:"),
      Json(JsonDumps(Get(disease_info, "natural_history", EmptyMapping))),
      Lit("Epidemiology:"),
      Json(JsonDumps(Get(disease_info, "epidemiology", EmptyMapping)))>>

DiseaseDoc(disease_name, disease_info) ==
    [text |-> DiseaseText(disease_name, disease_info),
     metadata |-> [disease |-> disease_name, type |-> "clinical_info",
                   source |-> "Orphanet"]]

\* keys read with paper[...] in the order the loop body evaluates them
PaperKeyOrder == <<"title", "abstract", "authors", "journal",
                   "publication_date", "paper_id">>

\* the first key whose subscript raises KeyError, "" when there is none
RECURSIVE FirstMissing(_, _)
FirstMissing(paper, keys) ==
    IF keys = <<>> THEN ""
    ELSE IF Head(keys) \notin DOMAIN paper THEN Head(keys)
    ELSE FirstMissing(paper, Tail(keys))

\* MissingPaperKey with the year read by subscript as well
MissingPaperKey_YearRequired(paper) ==
    IF FirstMissing(paper, PaperKeyOrder) # "" THEN FirstMissing(paper, PaperKeyOrder)
    ELSE IF "year" \notin DOMAIN paper["publication_date"] THEN "year"
    ELSE ""

MissingPaperKey(paper) == FirstMissing(paper, PaperKeyOrder)

\* the f-string of lines 53-62 (defined when no subscript raises)
PaperText(paper) ==
    <<Lit("Title: "), Lit(paper["title"]),
      Lit("Abstract:"), Lit(paper["abstract"]), Lit("Authors: ")>>
    \o [i \in 1..Len(Join(paper["authors"])) |-> Lit(Join(paper["authors"])[i])]
    \o <<Lit("Journal: "), Lit(paper["journal"]),
         Lit("Publication Date: "),
         Lit(Get(paper["publication_date"], "year", ""))>>

PaperDoc(disease_name, paper) ==
    [text |-> PaperText(paper),
     metadata |-> [disease |-> disease_name, type |-> "research_paper",
                   paper_id |-> paper["paper_id"], source |-> "PubMed"]]

\* the inner loop over data.get('papers', []): the documents appended so far
\* and whether a KeyError ended the loop
RECURSIVE PaperLoop(_, _, _)
PaperLoop(disease_name, papers, acc) ==
    IF papers = <<>> THEN [raised |-> FALSE, error |-> "", documents |-> acc]
    ELSE IF MissingPaperKey(Head(papers)) # ""
         THEN [raised |-> TRUE, error |-> MissingPaperKey(Head(papers)),
               documents |-> acc]
         ELSE PaperLoop(disease_name, Tail(papers),
                        Append(acc, PaperDoc(disease_name, Head(papers))))

\* RecordDocs with the test "'disease_info' in data" instead of truthiness
RecordDocs_KeyPresent(disease_name, data, acc) ==
    LET withInfo ==
          IF "disease_info" \in DOMAIN data
          THEN Append(acc, DiseaseDoc(disease_name, data["disease_info"]))
          ELSE acc
    IN PaperLoop(disease_name, Get(data, "papers", <<>>), withInfo)

\* one iteration of the outer loop over merged_data.items()
RecordDocs(disease_name, data, acc) ==
    LET withInfo ==
          IF TruthyDict(Get(data, "disease_info", EmptyDict))
          THEN Append(acc, DiseaseDoc(disease_name, data["disease_info"]))
          ELSE acc
    IN PaperLoop(disease_name, Get(data, "papers", <<>>), withInfo)

RECURSIVE ItemsLoop(_, _)
ItemsLoop(items, acc) ==
    IF items = <<>> THEN [raised |-> FALSE, error |-> "", documents |-> acc]
    ELSE LET r == RecordDocs(Head(items)[1], Head(items)[2], acc)
         IN IF r.raised THEN r ELSE ItemsLoop(Tail(items), r.documents)

\* prepare_documents(merged_data): merged_data is the ordered sequence of
\* <<disease_name, data>> items of the dict.  A raised KeyError returns no
\* documents to the caller.
prepare_documents(md) ==
    LET r == ItemsLoop(md, <<>>)
    IN IF r.raised THEN [raised |-> TRUE, error |-> r.error, documents |-> <<>>]
       ELSE r

(***************************************************************************)
(* Input datasets for the document builder                                 *)
(***************************************************************************)
DiseaseNames == {"Fabry Disease", "Gaucher Disease"}

InfoKeys == {"definition", "clinical_features", "genetic_info",
             "natural_history", "epidemiology"}
MappingKeys == InfoKeys \ {"definition"}

Str(s) == [str |-> s]

\* disease_info values: empty; definition only; no definition; and one with
\* genetic_info absent, natural_history present but empty, and sub-mappings
\* holding a number, a boolean, a null, a list, a nested mapping and strings
\* with characters that json.dumps escapes.  Strings are given by their code
\* points, the text in the comment beside them.
InfoValues ==
    { EmptyDict,
      [definition |-> "X"],
      [genetic_info |->
          \* {"gene": "GLA"}
          [map |-> << <<<<103, 101, 110, 101>>, Str(<<71, 76, 65>>)>> >>]],
      [definition |-> "X",
       clinical_features |->
          \* {"onset": {"age": "10"}, "symptoms": ["pain", "rash"],
          \*  "note": "a \"b\"\\\r\x7f"}
          [map |-> << <<<<111, 110, 115, 101, 116>>,
                        [map |-> << <<<<97, 103, 101>>, Str(<<49, 48>>)>> >>]>>,
                      <<<<115, 121, 109, 112, 116, 111, 109, 115>>,
                        [list |-> <<Str(<<112, 97, 105, 110>>),
                                    Str(<<114, 97, 115, 104>>)>>]>>,
                      <<<<110, 111, 116, 101>>,
                        Str(<<97, 32, 34, 98, 34, 92, 13, 127>>)>> >>],
       natural_history |-> EmptyMapping,
       epidemiology |->
          \* {"prevalence": 5, "rare": true, "region": null,
          \*  "clé": "Müller ™ \U0001f600", "codes": []}
          [map |-> << <<<<112, 114, 101, 118, 97, 108, 101, 110, 99, 101>>,
                        [num |-> 5]>>,
                      <<<<114, 97, 114, 101>>, [bool |-> TRUE]>>,
                      <<<<114, 101, 103, 105, 111, 110>>, [null |-> TRUE]>>,
                      <<<<99, 108, 233>>,
                        Str(<<77, 252, 108, 108, 101, 114, 32, 8482, 32, 128512>>)>>,
                      <<<<99, 111, 100, 101, 115>>, [list |-> <<>>]>> >>]] }

FullPaper(id) ==
    [paper_id |-> id, title |-> "T", abstract |-> "A",
     authors |-> <<"Jane Doe", "John Roe">>, journal |-> "J",
     publication_date |-> [year |-> "2020"]]

Without(d, k) == [x \in DOMAIN d \ {k} |-> d[x]]

PaperVariants ==
    { FullPaper("P1"), FullPaper("P2"),
      [FullPaper("P1") EXCEPT !.publication_date = EmptyDict] }
    \cup { Without(FullPaper("P1"), k) :
             k \in {"title", "abstract", "authors", "journal",
                    "publication_date", "paper_id"} }

SeqsUpTo(S, n) == UNION { [1..k -> S] : k \in 0..n }

\* an optional key: <<>> when the key is absent, <<v>> when it maps to v
MkData(infoOpt, papersOpt) ==
    [k \in (IF Len(infoOpt) = 0 THEN {} ELSE {"disease_info"})
           \cup (IF Len(papersOpt) = 0 THEN {} ELSE {"papers"})
       |-> IF k = "disease_info" THEN infoOpt[1] ELSE papersOpt[1]]

InfoOpts == {<<>>} \cup { <<i>> : i \in InfoValues }
PapersOpts(n) == {<<>>} \cup { <<ps>> : ps \in SeqsUpTo(PaperVariants, n) }
DataUpTo(n) == { MkData(i, p) : i \in InfoOpts, p \in PapersOpts(n) }

NumPapers(data) == Len(Get(data, "papers", <<>>))

\* merged_data is a dataset of at most two diseases holding at most
\* MaxPapers papers
IsDataset(md) ==
    \/ md = <<>>
    \/ \E n \in DiseaseNames, d \in DataUpTo(MaxPapers) : md = << <<n, d>> >>
    \/ \E ns \in { q \in DiseaseNames \X DiseaseNames : q[1] # q[2] },
          d1 \in DataUpTo(MaxPapers) :
          \E d2 \in DataUpTo(MaxPapers - NumPapers(d1)) :
             md = << <<ns[1], d1>>, <<ns[2], d2>> >>

(***************************************************************************)
(* Idle values of the parts a specification does not exercise              *)
(***************************************************************************)
NotRun == [done |-> FALSE, raised |-> FALSE, error |-> "", documents |-> <<>>]

(***************************************************************************)
(* Document builder specification: apply prepare_documents to a dataset    *)
(***************************************************************************)
PrepareDocuments ==
    /\ ~docResult.done
    /\ docResult' = [done |-> TRUE] @@ prepare_documents(merged_data)
    /\ UNCHANGED <<merged_data, storeVars, sysVars>>

(***************************************************************************)
(* Collection manager.  The persistence directory is                       *)
(* [exists, collections]: collections is the sequence of collections the   *)
(* directory's database holds, each [name, items] with items the number of *)
(* stored chunks.  The outcomes of the external calls are given by fault:  *)
(*   rmtree: "ok" | "fail_intact" (nothing deleted) | "fail_emptied" (the  *)
(*           database was deleted before the error)                        *)
(*   step:   the call that raises, "none" when no call does: "client"      *)
(*           (Settings / PersistentClient), "create" (create_collection),  *)
(*           "vector_store" (ChromaVectorStore)                            *)
(***************************************************************************)
collection_name == "rare_diseases_collection"

NoDir == [exists |-> FALSE, collections |-> <<>>]

HasCollection(d, name) == \E i \in 1..Len(d.collections) : d.collections[i].name = name

\* lines 82-87: the directory after the cleanup, and what the cleanup printed
Cleanup(d, fault) ==
    IF ~d.exists THEN [disk |-> d, log |-> <<>>]
    ELSE IF fault.rmtree = "ok" THEN [disk |-> NoDir, log |-> <<>>]
    ELSE IF fault.rmtree = "fail_emptied"
         THEN [disk |-> [exists |-> TRUE, collections |-> <<>>],
               log |-> <<"Directory cleanup warning: ">>]
         ELSE [disk |-> d, log |-> <<"Directory cleanup warning: ">>]

\* lines 97-100: create_collection raises when the name is taken
\* CreateCollectionRaises for get_or_create_collection: a taken name is reused
CreateCollectionRaises_GetOrCreate(d, name, fault) ==
    fault.step = "create"

CreateCollectionRaises(d, name, fault) ==
    fault.step = "create" \/ HasCollection(d, name)

\* the directory once the call has returned: a new, empty collection
CreateCollection(d, name) ==
    [d EXCEPT !.collections = Append(@, [name |-> name, items |-> 0])]

\* setup_chroma_store whose outer handler prints the error and returns None
setup_chroma_store_Swallow(d, fault) ==
    LET c == Cleanup(d, fault)
        opened == [c.disk EXCEPT !.exists = TRUE]
    IN IF fault.step = "client"
       THEN [raised |-> FALSE, handle |-> None, creates |-> 0,
             log |-> c.log \o <<"Error setting up ChromaDB: ">>,
             disk |-> c.disk]
       ELSE IF CreateCollectionRaises(opened, collection_name, fault)
       THEN [raised |-> FALSE, handle |-> None, creates |-> 1,
             log |-> c.log \o <<"Error setting up ChromaDB: ">>,
             disk |-> opened]
       ELSE IF fault.step = "vector_store"
       THEN [raised |-> FALSE, handle |-> None, creates |-> 1,
             log |-> c.log \o <<"Error setting up ChromaDB: ">>,
             disk |-> CreateCollection(opened, collection_name)]
       ELSE [raised |-> FALSE, handle |-> collection_name, creates |-> 1,
             log |-> c.log,
             disk |-> CreateCollection(opened, collection_name)]

\* setup_chroma_store(persist_dir): raised, the returned handle (the name of
\* the collection the vector store wraps), the printed lines, the number of
\* create_collection calls made and the directory afterwards
setup_chroma_store(d, fault) ==
    LET c == Cleanup(d, fault)
        opened == [c.disk EXCEPT !.exists = TRUE]
    IN IF fault.step = "client"
       THEN [raised |-> TRUE, handle |-> None, creates |-> 0,
             log |-> c.log \o <<"Error setting up ChromaDB: ">>,
             disk |-> c.disk]
       ELSE IF CreateCollectionRaises(opened, collection_name, fault)
       THEN [raised |-> TRUE, handle |-> None, creates |-> 1,
             log |-> c.log \o <<"Error setting up ChromaDB: ">>,
             disk |-> opened]
       ELSE IF fault.step = "vector_store"
       THEN [raised |-> TRUE, handle |-> None, creates |-> 1,
             log |-> c.log \o <<"Error setting up ChromaDB: ">>,
             disk |-> CreateCollection(opened, collection_name)]
       ELSE [raised |-> FALSE, handle |-> collection_name, creates |-> 1,
             log |-> c.log,
             disk |-> CreateCollection(opened, collection_name)]

RmtreeOutcomes == {"ok", "fail_intact", "fail_emptied"}
StoreFaults == [rmtree : RmtreeOutcomes,
                step : {"none", "client", "create", "vector_store"}]

\* the number of chunks stored under a name
RECURSIVE ItemsOf(_, _)
ItemsOf(cols, name) ==
    IF cols = <<>> THEN 0
    ELSE (IF Head(cols).name = name THEN Head(cols).items ELSE 0)
         + ItemsOf(Tail(cols), name)

RECURSIVE CountNamed(_, _)
CountNamed(cols, name) ==
    IF cols = <<>> THEN 0
    ELSE (IF Head(cols).name = name THEN 1 ELSE 0) + CountNamed(Tail(cols), name)

\* insertion of n chunks into the collection of that name
AddItems(d, name, n) ==
    [d EXCEPT !.collections =
        [i \in 1..Len(@) |-> IF @[i].name = name
                             THEN [@[i] EXCEPT !.items = @ + n] ELSE @[i]]]

\* a directory left by an earlier run: absent, empty, or holding a populated
\* collection
OldDisks ==
    {NoDir, [exists |-> TRUE, collections |-> <<>>]}
    \cup { [exists |-> TRUE,
            collections |-> <<[name |-> collection_name, items |-> n]>>] :
           n \in 1..MaxInsert }

NoStoreCall ==
    [called |-> FALSE, fresh |-> FALSE, raised |-> FALSE, handle |-> None,
     creates |-> 0, log |-> <<>>,
     fault |-> [rmtree |-> "ok", step |-> "none"],
     prevExists |-> FALSE, prevHad |-> FALSE, prevItems |-> 0]

(***************************************************************************)
(* Collection manager specification: setup_chroma_store is called on the   *)
(* directory again and again, and the collection it returned is populated  *)
(* in between.                                                             *)
(***************************************************************************)
SetupChromaStore ==
    /\ storeOps < MaxStoreOps
    /\ \E fault \in StoreFaults :
         /\ (~disk.exists => fault.rmtree = "ok")
         /\ LET r == setup_chroma_store(disk, fault)
            IN /\ disk' = r.disk
               /\ storeResult' =
                    [called |-> TRUE, fresh |-> TRUE, raised |-> r.raised,
                     handle |-> r.handle, creates |-> r.creates,
                     log |-> r.log, fault |-> fault,
                     prevExists |-> disk.exists,
                     prevHad |-> HasCollection(disk, collection_name),
                     prevItems |-> ItemsOf(disk.collections, collection_name)]
    /\ storeOps' = storeOps + 1
    /\ UNCHANGED <<docVars, sysVars>>

Populate ==
    /\ storeOps < MaxStoreOps
    /\ storeResult.called /\ ~storeResult.raised
    /\ HasCollection(disk, storeResult.handle)
    /\ \E n \in 1..MaxInsert :
         disk' = AddItems(disk, storeResult.handle, n)
    /\ storeResult' = [storeResult EXCEPT !.fresh = FALSE]
    /\ storeOps' = storeOps + 1
    /\ UNCHANGED <<docVars, sysVars>>

(***************************************************************************)
(* initialize_rag_system.  fault names the external call that raises       *)
(* (step), the outcome of the directory cleanup (rmtree) and, for a        *)
(* failure while embedding or inserting, the number of chunks already      *)
(* inserted (at).  One chunk is stored per document, as line 145 reports.  *)
(***************************************************************************)
InitSteps == {"none", "openai", "embed_model", "client", "create",
              "vector_store", "storage_context", "service_context", "embed", "insert"}

\* InitFailure that hands back the index when the build broke off midway
InitFailure_PartialIndex(e, log, d) ==
    [index |-> IF e \in {"embed", "insert"} THEN "Index" ELSE None,
     message |-> <<"Error initializing system: ", e>>,
     log |-> log \o <<"Initialization error: ", e>>, failed |-> e, disk |-> d]

InitFailure(e, log, d) ==
    [index |-> None, message |-> <<"Error initializing system: ", e>>,
     log |-> log \o <<"Initialization error: ", e>>, failed |-> e, disk |-> d]

initialize_rag_system(md, d, fault) ==
    IF fault.step \in {"openai", "embed_model"}
    THEN InitFailure(fault.step, <<>>, d)
    ELSE
    LET st == setup_chroma_store(d, [rmtree |-> fault.rmtree,
                 step |-> IF fault.step \in {"client", "create", "vector_store"}
                          THEN fault.step ELSE "none"])
        docs == prepare_documents(md)
    IN IF st.raised THEN InitFailure("setup_chroma_store", st.log, st.disk)
       ELSE IF fault.step \in {"storage_context", "service_context"}
       THEN InitFailure(fault.step, st.log, st.disk)
       ELSE IF docs.raised
       THEN InitFailure("KeyError", st.log, st.disk)
       ELSE IF fault.step \in {"embed", "insert"}
       THEN InitFailure(fault.step, st.log,
                        AddItems(st.disk, st.handle, fault.at))
       ELSE [index |-> "Index",
             message |-> <<"System initialized successfully with persistent storage!">>,
             log |-> st.log \o <<"Verifying embedding storage:",
                                 "Number of stored embeddings: ">>,
             failed |-> "",
             disk |-> AddItems(st.disk, st.handle, Len(docs.documents))]

(***************************************************************************)
(* query_disease and handle_query.  outcome names the backend call that    *)
(* raises: "engine_fail" (as_query_engine), "retrieval_fail",              *)
(* "filter_fail", "synthesis_fail" (inside query_engine.query), or "ok".   *)
(***************************************************************************)
AllDiseases == "All Diseases"

\* truthiness of an optional string
Truthy(x) == x \notin {None, ""}

NotReadyMessage == <<"System initialization failed. Please check the logs.">>

\* QueryError when the handler does not catch a synthesis failure
QueryError_Uncaught(e, calls) ==
    IF e = "synthesis_fail"
    THEN [forwarded |-> TRUE, raised |-> TRUE, response |-> <<>>,
          calls |-> calls, log |-> <<>>]
    ELSE [forwarded |-> TRUE, raised |-> FALSE,
          response |-> <<"Error during query: ", e>>,
          calls |-> calls, log |-> <<"Query error details: ", e>>]

QueryError(e, calls) ==
    [forwarded |-> TRUE, raised |-> FALSE,
     response |-> <<"Error during query: ", e>>,
     calls |-> calls, log |-> <<"Query error details: ", e>>]

\* QueryCall without the comparison against the "All Diseases" sentinel
QueryCall_NoSentinel(query, disease_name) ==
    IF Truthy(disease_name)
    THEN [args |-> << <<"Regarding ", disease_name, ":", query,
                        "Please provide evidence-based clinical information.">> >>,
          kwargs |-> [metadata_filters |-> [disease |-> disease_name]]]
    ELSE [args |-> << <<query,
                        "Please provide evidence-based clinical information about relevant rare diseases.">> >>,
          kwargs |-> EmptyDict]

\* the query_engine.query call of lines 161-177
QueryCall(query, disease_name) ==
    IF Truthy(disease_name) /\ disease_name # AllDiseases
    THEN [args |-> << <<"Regarding ", disease_name, ":", query,
                        "Please provide evidence-based clinical information.">> >>,
          kwargs |-> [metadata_filters |-> [disease |-> disease_name]]]
    ELSE [args |-> << <<query,
                        "Please provide evidence-based clinical information about relevant rare diseases.">> >>,
          kwargs |-> EmptyDict]

query_disease(idx, query, disease_name, outcome) ==
    IF idx = None THEN QueryError("AttributeError", <<>>)
    ELSE IF outcome = "engine_fail" THEN QueryError(outcome, <<>>)
    ELSE LET call == QueryCall(query, disease_name)
         IN IF outcome # "ok" THEN QueryError(outcome, <<call>>)
            ELSE [forwarded |-> TRUE, raised |-> FALSE,
                  response |-> <<"Answer: ">> \o call.args[1],
                  calls |-> <<call>>, log |-> <<>>]

\* handle_query without the "if not index" test
handle_query_NoGuard(idx, query, disease_name, outcome) ==
    query_disease(idx, query, disease_name, outcome)

handle_query(idx, query, disease_name, outcome) ==
    IF ~Truthy(idx)
    THEN [forwarded |-> FALSE, raised |-> FALSE, response |-> NotReadyMessage,
          calls |-> <<>>, log |-> <<>>]
    ELSE query_disease(idx, query, disease_name, outcome)

ErrorPrefixes == {"Error during query: ", "Error initializing system: ",
                  "Error setting up ChromaDB: "}

\* the text contains "Error"
ContainsError(text) == \E i \in 1..Len(text) : text[i] \in ErrorPrefixes

Kind(response) ==
    IF response = <<>> THEN "none"
    ELSE IF response = NotReadyMessage THEN "not_ready"
    ELSE IF ContainsError(response) THEN "error"
    ELSE "answer"

(***************************************************************************)
(* System inputs                                                           *)
(***************************************************************************)
Queries == {"What are the main clinical manifestations?",
            "What are the current treatment approaches?"}
DiseaseArgs == {None, "", AllDiseases} \cup DiseaseNames
Outcomes == {"ok", "engine_fail", "retrieval_fail", "filter_fail",
             "synthesis_fail"}

\* the dataset of the end-to-end scenario, a two-disease dataset sharing a
\* paper, and a dataset with a paper that has no abstract
SysDatasets ==
    { << <<"Fabry Disease",
           MkData(<<[definition |-> "X"]>>, << <<FullPaper("P1")>> >>)>> >>,
      << <<"Fabry Disease",
           MkData(<<>>, << <<FullPaper("P1"), FullPaper("P2")>> >>)>>,
         <<"Gaucher Disease",
           \* {"gene": "GBA"}
           MkData(<<[genetic_info |-> [map |-> << <<<<103, 101, 110, 101>>,
                                                     Str(<<71, 66, 65>>)>> >>]]>>,
                  << <<FullPaper("P1")>> >>)>> >>,
      << <<"Fabry Disease",
           MkData(<<>>, << <<Without(FullPaper("P1"), "abstract")>> >>)>> >> }

MaxDocs == 4

SysFaults == [rmtree : RmtreeOutcomes, step : InitSteps, at : 0..(MaxDocs - 1)]

NoInit == [ran |-> FALSE, runs |-> 0, message |-> <<>>, log |-> <<>>,
           failed |-> "",
           fault |-> [rmtree |-> "ok", step |-> "none", at |-> 0]]

NoQuery == [query |-> "", disease_name |-> None, outcome |-> "ok",
            forwarded |-> FALSE, raised |-> FALSE, response |-> <<>>,
            calls |-> <<>>, log |-> <<>>]

(***************************************************************************)
(* System specification                                                    *)
(***************************************************************************)
\* LoadRaises when the load is wrapped in a handler that falls back to {}
LoadRaises_Never(file) == FALSE

\* lines 186-187: open / json.load raise on a missing or malformed file
LoadRaises(file) == file # "readable"

\* create_gradio_interface: load the dataset, initialise, bind handle_query
CreateGradioInterface ==
    /\ pc = "start"
    /\ IF LoadRaises(data_file)
       THEN \* nothing catches it: the process ends
            /\ pc' = "crashed"
            /\ UNCHANGED <<index, initResult, disk>>
       ELSE \E fault \in SysFaults :
            /\ (~disk.exists \/ fault.step \in {"openai", "embed_model"})
                  => fault.rmtree = "ok"
            /\ IF fault.step \in {"embed", "insert"}
               THEN fault.at < Len(prepare_documents(merged_data).documents)
               ELSE fault.at = 0
            /\ LET r == initialize_rag_system(merged_data, disk, fault)
               IN /\ index' = r.index
                  /\ disk' = r.disk
                  /\ initResult' = [ran |-> TRUE, runs |-> initResult.runs + 1,
                                    message |-> r.message, log |-> r.log,
                                    failed |-> r.failed, fault |-> fault]
            /\ pc' = "serving"
    /\ UNCHANGED <<docVars, storeResult, storeOps, data_file, lastQuery,
                   nQueries, nCalls, prevKind>>

\* HandleQuery that drops the index after a failed query
HandleQuery_DropIndex ==
    /\ pc = "serving"
    /\ nQueries < MaxQueries
    /\ \E query \in Queries, disease_name \in DiseaseArgs, outcome \in Outcomes :
         /\ (index = None => outcome = "ok")
         /\ LET r == handle_query(index, query, disease_name, outcome)
            IN /\ lastQuery' = [query |-> query, disease_name |-> disease_name,
                                outcome |-> outcome] @@ r
               /\ nCalls' = nCalls + Len(r.calls)
               /\ index' = IF ContainsError(r.response) THEN None ELSE index
    /\ nQueries' = nQueries + 1
    /\ prevKind' = Kind(lastQuery.response)
    /\ UNCHANGED <<docVars, storeVars, data_file, pc, initResult>>

\* one click on the submit button
HandleQuery ==
    /\ pc = "serving"
    /\ nQueries < MaxQueries
    /\ \E query \in Queries, disease_name \in DiseaseArgs, outcome \in Outcomes :
         /\ (index = None => outcome = "ok")
         /\ LET r == handle_query(index, query, disease_name, outcome)
            IN /\ lastQuery' = [query |-> query, disease_name |-> disease_name,
                                outcome |-> outcome] @@ r
               /\ nCalls' = nCalls + Len(r.calls)
    /\ nQueries' = nQueries + 1
    /\ prevKind' = Kind(lastQuery.response)
    /\ UNCHANGED <<docVars, storeVars, data_file, pc, index, initResult>>

(***************************************************************************)
(* Specifications                                                          *)
(***************************************************************************)
Init ==
    /\ data_file \in {"readable", "missing", "malformed"}
    /\ merged_data \in (IF data_file = "readable" THEN SysDatasets ELSE {<<>>})
    /\ docResult = NotRun
    /\ disk \in OldDisks
    /\ storeResult = NoStoreCall
    /\ storeOps = 0
    /\ pc = "start"
    /\ index = "unbound"
    /\ initResult = NoInit
    /\ lastQuery = NoQuery
    /\ nQueries = 0
    /\ nCalls = 0
    /\ prevKind = "none"

Next == CreateGradioInterface \/ HandleQuery

Spec == Init /\ [][Next]_vars

SysIdle ==
    /\ data_file = "readable"
    /\ pc = "off"
    /\ index = "unbound"
    /\ initResult = NoInit
    /\ lastQuery = NoQuery
    /\ nQueries = 0
    /\ nCalls = 0
    /\ prevKind = "none"

InitDocs ==
    /\ IsDataset(merged_data)
    /\ docResult = NotRun
    /\ disk = NoDir
    /\ storeResult = NoStoreCall
    /\ storeOps = 0
    /\ SysIdle

NextDocs == PrepareDocuments

SpecDocs == InitDocs /\ [][NextDocs]_vars

InitStore ==
    /\ merged_data = <<>>
    /\ docResult = NotRun
    /\ disk \in OldDisks
    /\ storeResult = NoStoreCall
    /\ storeOps = 0
    /\ SysIdle

NextStore == SetupChromaStore \/ Populate

SpecStore == InitStore /\ [][NextStore]_vars

(***************************************************************************)
(* The system state of the specification's state machine, read off the     *)
(* program: before create_gradio_interface has run, after the dataset load *)
(* ended the process, and after initialize_rag_system returned.            *)
(***************************************************************************)
SystemState ==
    IF pc = "start" THEN "Uninitialized"
    ELSE IF pc = "crashed" THEN "Terminated"
    ELSE IF Truthy(index) THEN "Ready"
    ELSE "Failed"

(***************************************************************************)
(* Properties of the system specification (Spec)                           *)
(***************************************************************************)
\* C1: a query is forwarded to query_disease only in Ready; in Uninitialized
\* and Failed no query reaches the backend, and every query handled in
\* Failed returns the fixed "not ready" message.
C1_ForwardOnlyWhenReady ==
    /\ lastQuery.forwarded => SystemState = "Ready"
    /\ SystemState \in {"Uninitialized", "Failed"} =>
          /\ nCalls = 0
          /\ lastQuery.calls = <<>>
          /\ nQueries > 0 => lastQuery.response = NotReadyMessage
    /\ SystemState = "Uninitialized" => nQueries = 0

C1_Witness ==
    /\ SystemState = "Failed"
    /\ nQueries >= 2
    /\ prevKind = "not_ready"
    /\ lastQuery.disease_name \in DiseaseNames
    /\ lastQuery.response = NotReadyMessage

\* a step of initialize_rag_system raised: an injected failure of an external
\* call, a KeyError in prepare_documents, or setup_chroma_store raising
InitStepFailed ==
    /\ initResult.ran
    /\ \/ initResult.fault.step # "none"
       \/ prepare_documents(merged_data).raised
       \/ initResult.failed = "setup_chroma_store"

\* C2: when a step of initialize_rag_system fails, also after some chunks
\* were inserted, the system is Failed with no index, and no query is ever
\* answered from the partially built collection.
C2_AllOrNothing ==
    InitStepFailed =>
        /\ index = None
        /\ SystemState = "Failed"
        /\ nCalls = 0
        /\ ~lastQuery.forwarded
        /\ nQueries > 0 => lastQuery.response = NotReadyMessage

C2_Witness ==
    /\ initResult.ran
    /\ initResult.fault.step = "insert"
    /\ initResult.fault.at >= 1
    /\ ItemsOf(disk.collections, collection_name) >= 1
    /\ index = None
    /\ nQueries >= 1

\* C3: a failure while building the query engine, retrieving, filtering or
\* synthesizing is logged and returned as a string containing "Error"; no
\* exception escapes query_disease.
C3_QueryFailuresCaught ==
    /\ ~lastQuery.raised
    /\ (lastQuery.forwarded /\ lastQuery.outcome # "ok") =>
          /\ ContainsError(lastQuery.response)
          /\ lastQuery.log # <<>>
          /\ lastQuery.log[1] = "Query error details: "

C3_Witness ==
    /\ SystemState = "Ready"
    /\ lastQuery.forwarded
    /\ lastQuery.outcome = "synthesis_fail"
    /\ Len(lastQuery.calls) = 1
    /\ ContainsError(lastQuery.response)

\* C4: once initialization has finished, no step changes the index, the
\* system state, the initialization record or the collection; and every
\* query handled in Ready is dispatched, whatever the previous one returned.
C4_StateFrozen ==
    [][pc = "serving" =>
         /\ pc' = "serving"
         /\ index' = index
         /\ initResult' = initResult
         /\ disk' = disk
         /\ (index = "Index" /\ nQueries' = nQueries + 1) =>
               /\ lastQuery'.forwarded
               /\ nCalls' >= nCalls]_vars

C4_Witness ==
    /\ SystemState = "Ready"
    /\ nQueries >= 2
    /\ prevKind = "error"
    /\ lastQuery.forwarded
    /\ Kind(lastQuery.response) = "answer"
    /\ initResult.runs = 1

\* C5: the retrieval call carries the filter {"disease": name} exactly when
\* the scope is a specific disease name, and no metadata filter when the
\* scope is "All Diseases", None or empty.
C5_FilterRule ==
    \A i \in 1..Len(lastQuery.calls) :
        LET kw == lastQuery.calls[i].kwargs
            d == lastQuery.disease_name
        IN /\ d \in DiseaseNames =>
                /\ DOMAIN kw = {"metadata_filters"}
                /\ DOMAIN kw.metadata_filters = {"disease"}
                /\ kw.metadata_filters.disease = d
           /\ d \in {None, "", AllDiseases} => DOMAIN kw = {}

C5_Witness ==
    /\ Len(lastQuery.calls) = 1
    /\ lastQuery.disease_name = "Gaucher Disease"
    /\ DOMAIN lastQuery.calls[1].kwargs = {"metadata_filters"}
    /\ prevKind = "answer"

\* C10 as stated: an unreadable dataset leaves the system in Failed.
C10_Original ==
    (data_file # "readable" /\ pc # "start") => SystemState = "Failed"

\* C10 amended: an unreadable dataset ends create_gradio_interface with the
\* exception; initialization never runs, no handler is bound and no query is
\* handled.
C10_LoadFailureTerminates ==
    (data_file # "readable" /\ pc # "start") =>
        /\ pc = "crashed"
        /\ index = "unbound"
        /\ ~initResult.ran
        /\ nQueries = 0

C10_Witness ==
    /\ data_file = "malformed"
    /\ pc = "crashed"

(***************************************************************************)
(* Properties of the document builder (SpecDocs)                           *)
(***************************************************************************)
HasInfo(data) ==
    "disease_info" \in DOMAIN data /\ DOMAIN data["disease_info"] # {}

RECURSIVE ExpectedCount(_)
ExpectedCount(md) ==
    IF md = <<>> THEN 0
    ELSE NumPapers(Head(md)[2]) + (IF HasInfo(Head(md)[2]) THEN 1 ELSE 0)
         + ExpectedCount(Tail(md))

\* per record: the clinical_info entry if any, then one entry per paper
RECURSIVE ExpectedLayout(_)
ExpectedLayout(md) ==
    IF md = <<>> THEN <<>>
    ELSE LET n == Head(md)[1]
             ps == Get(Head(md)[2], "papers", <<>>)
         IN (IF HasInfo(Head(md)[2]) THEN << <<n, "clinical_info", "">> >>
             ELSE <<>>)
            \o [i \in 1..Len(ps) |->
                  <<n, "research_paper", Get(ps[i], "paper_id", "")>>]
            \o ExpectedLayout(Tail(md))

DocLayout(docs) ==
    [i \in 1..Len(docs) |->
        <<docs[i].metadata.disease, docs[i].metadata.type,
          Get(docs[i].metadata, "paper_id", "")>>]

\* C6: when prepare_documents returns, every record with K papers has
\* contributed K+1 documents if its clinical info is non-empty (the
\* clinical_info document first, then one research_paper document per paper)
\* and K documents otherwise; the total is the sum, a paper listed under two
\* diseases counted twice.
C6_DocumentCount ==
    (docResult.done /\ ~docResult.raised) =>
        /\ Len(docResult.documents) = ExpectedCount(merged_data)
        /\ DocLayout(docResult.documents) = ExpectedLayout(merged_data)

C6_Witness ==
    /\ docResult.done /\ ~docResult.raised
    /\ Len(merged_data) = 2
    /\ HasInfo(merged_data[1][2])
    /\ "disease_info" \in DOMAIN merged_data[2][2]
    /\ ~HasInfo(merged_data[2][2])
    /\ NumPapers(merged_data[1][2]) = 1
    /\ NumPapers(merged_data[2][2]) = 1
    /\ merged_data[1][2]["papers"][1] = merged_data[2][2]["papers"][1]
    /\ Len(docResult.documents) = 3

RequiredPaperKeys == {"title", "abstract", "authors", "journal",
                      "publication_date", "paper_id"}

WellFormedPapers(md) ==
    \A i \in 1..Len(md) :
        \A j \in 1..NumPapers(md[i][2]) :
            RequiredPaperKeys \subseteq DOMAIN md[i][2]["papers"][j]

TokenAfter(text, heading) ==
    text[(CHOOSE i \in 1..(Len(text) - 1) : text[i] = heading) + 1]

DataOf(md, name) == md[CHOOSE i \in 1..Len(md) : md[i][1] = name][2]

Heading(k) ==
    CASE k = "clinical_features" -> Lit("Clinical Features:")
      [] k = "genetic_info" -> Lit("Genetic Information:")
      [] k = "natural_history" -> Lit("Natural History:")
      [] k = "epidemiology" -> Lit("Epidemiology:")

\* the paper a research_paper document was built from
SourcePaper(md, docs, i) ==
    LET d == docs[i].metadata.disease
        j == Cardinality({ k \in 1..i : /\ docs[k].metadata.disease = d
                                        /\ docs[k].metadata.type = "research_paper" })
    IN DataOf(md, d)["papers"][j]

MissingRenderedEmpty(md, docs) ==
    \A i \in 1..Len(docs) :
        IF docs[i].metadata.type = "clinical_info"
        THEN LET info == DataOf(md, docs[i].metadata.disease)["disease_info"]
             IN /\ "definition" \notin DOMAIN info =>
                      TokenAfter(docs[i].text, Lit("Clinical Definition: ")) = Lit("")
                /\ \A k \in MappingKeys \ DOMAIN info :
                      TokenAfter(docs[i].text, Heading(k)) = Json(<<123, 125>>)
        ELSE "year" \notin DOMAIN SourcePaper(md, docs, i)["publication_date"] =>
                 TokenAfter(docs[i].text, Lit("Publication Date: ")) = Lit("")

\* C9 as stated: prepare_documents never fails because a field is missing.
C9_Original ==
    docResult.done => ~docResult.raised

\* C9 amended: prepare_documents returns the documents, with a missing
\* disease_info sub-mapping rendered as {} and a missing definition or
\* publication year as the empty string, exactly when every paper has its
\* title, abstract, authors, journal, publication_date and paper_id; when a
\* paper lacks one of these it raises KeyError and returns nothing.
C9_MissingOptionalFields ==
    docResult.done =>
        /\ docResult.raised <=> ~WellFormedPapers(merged_data)
        /\ docResult.raised => docResult.documents = <<>>
        /\ ~docResult.raised =>
              MissingRenderedEmpty(merged_data, docResult.documents)

C9_Witness ==
    /\ docResult.done /\ ~docResult.raised
    /\ Len(docResult.documents) = 2
    /\ Len(merged_data) = 1
    /\ HasInfo(merged_data[1][2])
    /\ DOMAIN merged_data[1][2]["disease_info"] = {"genetic_info"}
    /\ NumPapers(merged_data[1][2]) = 1
    /\ "year" \notin DOMAIN merged_data[1][2]["papers"][1]["publication_date"]

(***************************************************************************)
(* Properties of the collection manager (SpecStore)                        *)
(***************************************************************************)
\* C7: at most one collection has the fixed name, and when
\* setup_chroma_store returns a handle the collection it names holds no
\* items, whatever the directory held before.
C7_ReturnedCollectionEmpty ==
    /\ CountNamed(disk.collections, collection_name) <= 1
    /\ (storeResult.called /\ storeResult.fresh /\ ~storeResult.raised) =>
          /\ storeResult.handle = collection_name
          /\ HasCollection(disk, storeResult.handle)
          /\ ItemsOf(disk.collections, storeResult.handle) = 0

C7_Witness ==
    /\ storeResult.called /\ storeResult.fresh /\ ~storeResult.raised
    /\ storeResult.prevItems > 0
    /\ storeOps >= 3
    /\ ItemsOf(disk.collections, collection_name) = 0

ErrorLogged == \E i \in 1..Len(storeResult.log) :
                   storeResult.log[i] = "Error setting up ChromaDB: "
WarningLogged == \E i \in 1..Len(storeResult.log) :
                     storeResult.log[i] = "Directory cleanup warning: "

CleanupFailed == storeResult.prevExists /\ storeResult.fault.rmtree # "ok"

\* C8 as stated: every failure inside setup_chroma_store, a failure of the
\* directory deletion included, is logged and re-raised.
C8_Original ==
    (storeResult.called /\ (storeResult.fault.step # "none" \/ CleanupFailed))
        => (storeResult.raised /\ ErrorLogged)

\* C8 amended: a failure of the client construction, of create_collection
\* (a taken name included) or of the vector store construction is logged and
\* re-raised without a second attempt;
\* a failure of the directory deletion is logged as a warning and setup
\* goes on to create the client and the collection.
C8_FailuresReraisedExceptCleanup ==
    storeResult.called =>
        /\ (\/ storeResult.fault.step # "none"
            \/ (storeResult.prevHad /\ storeResult.fault.rmtree = "fail_intact"))
              => (storeResult.raised /\ ErrorLogged /\ storeResult.handle = None)
        /\ storeResult.raised => ErrorLogged
        /\ storeResult.creates <= 1
        /\ CleanupFailed =>
              /\ WarningLogged
              /\ storeResult.fault.step # "client" => storeResult.creates = 1
              /\ (storeResult.fault.step = "none"
                  /\ storeResult.fault.rmtree = "fail_emptied")
                    => ~storeResult.raised

C8_Witness ==
    /\ storeResult.called
    /\ CleanupFailed
    /\ storeResult.fault.step = "create"
    /\ storeResult.raised
    /\ WarningLogged /\ ErrorLogged
====
